---- MODULE Spec2Model ----
(***************************************************************************)
(* A model of the Slack bot's two stateful cores:                          *)
(*   - ClaudeHandler.streamQuery (src/src/claude-handler.ts): one          *)
(*     subprocess per query, its stdout read line by line, decoded and     *)
(*     yielded to the consumer, the session identifier captured from init  *)
(*     messages, cleanup in the finally block;                             *)
(*   - WorkingDirectoryManager (src/unnamed/part_002): the map of          *)
(*     directory assignments and its debounced persistence.                *)
(* JavaScript runs each callback to completion, so one action is one       *)
(* callback or one stretch of the generator between two suspension points. *)
(***************************************************************************)
EXTENDS Integers, Sequences, FiniteSets, TLC

\* ------------------------------------------------------------------ bounds
\* stdout lines one subprocess writes (single-conversation specification)
MaxLines == 3
\* queries run one after the other on one conversation
MaxRuns == 2
\* stdout lines one subprocess writes when two queries run concurrently
ConcMaxLines == 1

\* map-changing mutations of the directory store in one behaviour
MaxMutations == 2
\* entries of a persisted document a store is constructed on
MaxEntries == 2
\* steps of the clock while sessions age
MaxSessionTicks == 3
\* tool names in the provider's default list
MaxTools == 2

\* ------------------------------------------------------------ model values
Queries == {"q1", "q2"}
Keys == {"k1", "k2"}
\* the conversation key a query slot serves: different slots, different keys
KeyOf(q) == IF q = "q1" THEN "k1" ELSE "k2"
NoSession == "noSession"
NoRecord == [exists |-> FALSE]
\* session.sessionId === undefined
NoId == "undefined"
SessionIds == {"sid_a", "sid_b"}

\* --------------------------------------------------------------- protocol
LineBlank == "   "
LineGarbage == "{oops"
LineAssistant == "{type:assistant}"
LineInitA == "{type:system,subtype:init,session_id:sid_a}"
LineInitB == "{type:system,subtype:init,session_id:sid_b}"
Lines == {LineBlank, LineGarbage, LineAssistant, LineInitA, LineInitB}
ConcLines == {LineAssistant, LineInitA}

ParseError == [type |-> "SyntaxError", subtype |-> NoId, session_id |-> NoId]
SDKMessage(type, subtype, sid) ==
    [type |-> type, subtype |-> subtype, session_id |-> sid]

\* line.trim()
Trim(line) == IF line = LineBlank THEN "" ELSE line

\* JSON.parse(line) as SDKMessage; ParseError stands for the exception
JsonParse(line) ==
    CASE line = LineAssistant -> SDKMessage("assistant", NoId, NoId)
      [] line = LineInitA -> SDKMessage("system", "init", "sid_a")
      [] line = LineInitB -> SDKMessage("system", "init", "sid_b")
      [] OTHER -> ParseError

\* message.type === 'system' && message.subtype === 'init'
IsInit(m) == m.type = "system" /\ m.subtype = "init"

\* JavaScript truthiness of session?.sessionId
Truthy(sid) == sid # NoId /\ sid # ""

\* code === 0 || code === null
ExitCodes == {"0", "1", "null"}
\* mutant: an exit without a code (a signal) taken for a failure
IsCleanExit_ZeroOnly(code) == code = "0"
IsCleanExit(code) == code = "0" \/ code = "null"

VARIABLES
    hostAlive,   \* the Node process has not died of an uncaught exception
    sessions,    \* ClaudeHandler.sessions: key -> session record or NoRecord
    query,       \* per query slot: the generator, its subprocess, its consumer
    sessInits,   \* history: the session_ids of the init messages the latest query run with the key received
    now,         \* the clock, in milliseconds
    baseDirectory, \* config.baseDirectory ('' when not configured)
    configs,     \* WorkingDirectoryManager.configs: key -> WorkingDirectoryConfig
    saveTimer,   \* WorkingDirectoryManager.saveTimer and whether it is still pending
    saves,       \* the saveToDisk calls suspended at an await
    dirExists,   \* the directory of the persistence file exists
    disk,        \* the persistence file
    result,      \* what the last store operation returned
    paths,       \* the file system the store resolves against: directories and regular files
    fresh,       \* a store constructed on the persistence file as it was then
    saveLog,     \* history: the saveToDisk calls, with the time and the document of each
    lastMutation, \* history: time of the last map-changing mutation, number of bursts so far
    mcpManager,  \* what the tool-server configuration provider supplies
    args         \* the arguments streamQuery built last, with what it built them from

streamVars == <<hostAlive, sessions, query, sessInits>>
storeVars == <<baseDirectory, configs, saveTimer, saves, dirExists, disk, result,
               paths, fresh, saveLog, lastMutation>>
argVars == <<mcpManager, args>>
vars == <<hostAlive, sessions, query, sessInits, now, baseDirectory, configs, saveTimer,
          saves, dirExists, disk, result, paths, fresh, saveLog, lastMutation,
          mcpManager, args>>

\* ------------------------------------------------------------ streamQuery
IdleQuery ==
    [pc |-> "idle", session |-> NoSession, resume |-> NoId,
     child |-> "none", code |-> "unset", emitted |-> <<>>, consumed |-> 0,
     rl |-> "none", yielded |-> <<>>,
     aborted |-> FALSE, abortListener |-> FALSE, killed |-> FALSE, sigterm |-> FALSE,
     closeFired |-> FALSE, closeListener |-> FALSE,
     cleanups |-> 0, outcome |-> "none", runs |-> 0, prevInits |-> {},
     usedAt |-> -1]

\* no tool server configured; no query has built its arguments yet
NoServers == [servers |-> {}, tools |-> <<>>]
NoArgs == [built |-> FALSE]

InitStream ==
    /\ mcpManager = NoServers
    /\ args = NoArgs
    /\ hostAlive = TRUE
    /\ sessions = [k \in Keys |-> NoRecord]
    /\ query = [q \in Queries |-> IdleQuery]
    /\ sessInits = [k \in Keys |-> {}]
    /\ now = 0

\* createSession(userId, channelId, threadTs)
CreateSession(k) ==
    /\ hostAlive
    /\ sessions[k] = NoRecord
    /\ sessions' = [sessions EXCEPT ![k] =
           [exists |-> TRUE, sessionId |-> NoId, isActive |-> TRUE, lastActivity |-> now]]
    /\ UNCHANGED <<hostAlive, query, sessInits, now>>
    /\ UNCHANGED storeVars
    /\ UNCHANGED argVars

\* childProcess.kill('SIGTERM'): delivers the signal and sets .killed only while
\* the subprocess is alive
Kill(r) ==
    IF r.child = "running" THEN [r EXCEPT !.killed = TRUE, !.sigterm = TRUE] ELSE r

\* mutant: the finally block closes the reader and forgets the subprocess
Finally_ReaderOnly(r) ==
    [r EXCEPT !.cleanups = @ + 1, !.rl = IF @ = "none" THEN "none" ELSE "closed"]
\* the finally block: readlineInterface.close(); kill unless childProcess.killed
Finally(r) ==
    LET closed == [r EXCEPT !.cleanups = @ + 1,
                            !.rl = IF @ = "none" THEN "none" ELSE "closed"]
    IN IF closed.child # "none" /\ ~closed.killed THEN Kill(closed) ELSE closed

\* the generator leaves through finally with the given outcome
Leave(r, outcome) == [Finally(r) EXCEPT !.pc = "ended", !.outcome = outcome]

\* streamQuery(prompt, session, abortController): the caller gets the generator
\* object; nothing of the body has run yet
Call(q, s, maxRuns) ==
    /\ hostAlive
    /\ query[q].pc \in {"idle", "ended"}
    /\ query[q].runs < maxRuns
    /\ s # NoSession => sessions[s] # NoRecord
    /\ query' = [query EXCEPT ![q] =
           [IdleQuery EXCEPT !.pc = "created", !.session = s, !.runs = query[q].runs + 1,
                             !.usedAt = now]]
    /\ UNCHANGED <<hostAlive, sessions, sessInits, now>>
    /\ UNCHANGED storeVars
    /\ UNCHANGED argVars

\* mutant: the resume argument is never passed
ResumeArg_Fresh(s) == NoId
\* args.push('--resume', session.sessionId) when session?.sessionId
ResumeArg(s) ==
    IF s # NoSession /\ Truthy(sessions[s].sessionId) THEN sessions[s].sessionId ELSE NoId

\* the consumer's first next(): the body runs to the for await. spawn() either
\* throws, or returns a child that runs, or returns a child that will emit 'error'
FirstPull(q, spawned) ==
    /\ hostAlive
    /\ query[q].pc = "created"
    /\ LET r == query[q]
           s == r.session
           started == [r EXCEPT !.resume = ResumeArg(s),
                                !.prevInits = IF s = NoSession THEN {} ELSE sessInits[s]]
       IN /\ query' = [query EXCEPT ![q] =
                 CASE spawned = "throws" -> Leave(started, "raised")
                   [] spawned = "ok" ->
                        [started EXCEPT !.child = "running", !.rl = "open",
                                        !.abortListener = TRUE, !.pc = "reading"]
                   [] OTHER ->
                        [started EXCEPT !.child = "spawnFailing", !.rl = "open",
                                        !.abortListener = TRUE, !.pc = "reading"]]
          /\ sessInits' = IF s = NoSession THEN sessInits
                          ELSE [sessInits EXCEPT ![s] = {}]
    /\ UNCHANGED <<hostAlive, sessions, now>>
    /\ UNCHANGED storeVars
    /\ UNCHANGED argVars

\* childProcess.on('error', ...): the listener throws inside the event emitter,
\* outside the generator: an uncaught exception, which ends the Node process and
\* with it every generator in flight
OnChildError(q) ==
    /\ hostAlive
    /\ query[q].child = "spawnFailing"
    /\ hostAlive' = FALSE
    /\ query' = [p \in Queries |->
           IF p = q THEN [query[p] EXCEPT !.child = "errored"]
           ELSE IF query[p].pc \in {"created", "reading", "yielded", "waitClose"}
                THEN [query[p] EXCEPT !.outcome = "hostDied"]
                ELSE query[p]]
    /\ UNCHANGED <<sessions, sessInits, now>>
    /\ UNCHANGED storeVars
    /\ UNCHANGED argVars

\* the subprocess writes one line to stdout; readline buffers it
Emit(q, line, maxLines) ==
    /\ hostAlive
    /\ query[q].child = "running"
    /\ query[q].rl = "open"
    /\ Len(query[q].emitted) < maxLines
    /\ query' = [query EXCEPT ![q].emitted = Append(@, line)]
    /\ UNCHANGED <<hostAlive, sessions, sessInits, now>>
    /\ UNCHANGED storeVars
    /\ UNCHANGED argVars

\* the subprocess exits; its stdout reaches end and readline closes on it
\* (a subprocess is followed until its query has ended)
ChildExit(q, code) ==
    /\ hostAlive
    /\ query[q].child = "running"
    /\ query[q].pc # "ended"
    /\ query' = [query EXCEPT ![q] =
           [@ EXCEPT !.child = "exited", !.code = code,
                     !.rl = IF @ = "open" THEN "closed" ELSE @]]
    /\ UNCHANGED <<hostAlive, sessions, sessInits, now>>
    /\ UNCHANGED storeVars
    /\ UNCHANGED argVars

\* mutant: the try/catch sits outside the loop, a line that fails to decode
\* ends the query with the error
OnLine_DecodeErrorFatal(r, line) ==
    LET message == JsonParse(line)
    IN IF Trim(line) = "" THEN [r EXCEPT !.consumed = @ + 1]
       ELSE IF message = ParseError
       THEN [[r EXCEPT !.consumed = @ + 1, !.cleanups = @ + 1, !.rl = "closed"]
                EXCEPT !.pc = "ended", !.outcome = "raised"]
       ELSE [r EXCEPT !.consumed = @ + 1, !.yielded = Append(@, message), !.pc = "yielded"]
\* one turn of the for await loop on a buffered line: a blank line and a line
\* that fails to decode (logged in the catch) go on to the next line, a message
\* is yielded
OnLine(r, line) ==
    LET message == JsonParse(line)
    IN IF Trim(line) = "" \/ message = ParseError
       THEN [r EXCEPT !.consumed = @ + 1]
       ELSE [r EXCEPT !.consumed = @ + 1, !.yielded = Append(@, message), !.pc = "yielded"]

\* session.sessionId = message.session_id, on every init message of a query
\* that was given a session
Capture(record, message) == [record EXCEPT !.sessionId = message.session_id]

\* history: the time the query last used its session, at its start or at a
\* message it yielded
Used(r) == IF r.pc = "yielded" THEN [r EXCEPT !.usedAt = now] ELSE r

\* the body of the for await loop on the next buffered line, up to the yield
ReadLine(q) ==
    /\ hostAlive
    /\ query[q].pc = "reading"
    /\ query[q].consumed < Len(query[q].emitted)
    /\ LET r == query[q]
           line == r.emitted[r.consumed + 1]
           message == JsonParse(line)
           s == r.session
       IN /\ query' = [query EXCEPT ![q] = Used(OnLine(r, line))]
          /\ IF Trim(line) # "" /\ message # ParseError /\ IsInit(message) /\ s # NoSession
             THEN /\ sessions' = [sessions EXCEPT ![s] = Capture(@, message)]
                  /\ sessInits' = [sessInits EXCEPT ![s] = @ \cup {message.session_id}]
             ELSE UNCHANGED <<sessions, sessInits>>
    /\ UNCHANGED <<hostAlive, now>>
    /\ UNCHANGED storeVars
    /\ UNCHANGED argVars

\* the consumer asks for the next message
Pull(q) ==
    /\ hostAlive
    /\ query[q].pc = "yielded"
    /\ query' = [query EXCEPT ![q].pc = "reading"]
    /\ UNCHANGED <<hostAlive, sessions, sessInits, now>>
    /\ UNCHANGED storeVars
    /\ UNCHANGED argVars

\* the consumer stops early: generator.return() at the yield runs finally
Return(q) ==
    /\ hostAlive
    /\ query[q].pc = "yielded"
    /\ query' = [query EXCEPT ![q] = Leave(@, "stopped")]
    /\ UNCHANGED <<hostAlive, sessions, sessInits, now>>
    /\ UNCHANGED storeVars
    /\ UNCHANGED argVars

\* the for await loop ends (reader closed, buffer drained); the generator then
\* registers its 'close' listener and awaits it
EndOfLines(q) ==
    /\ hostAlive
    /\ query[q].pc = "reading"
    /\ query[q].rl = "closed"
    /\ query[q].consumed = Len(query[q].emitted)
    /\ query' = [query EXCEPT ![q] = [@ EXCEPT !.pc = "waitClose", !.closeListener = TRUE]]
    /\ UNCHANGED <<hostAlive, sessions, sessInits, now>>
    /\ UNCHANGED storeVars
    /\ UNCHANGED argVars

\* the child's 'close' event, once, after exit and end of stdout. Only a
\* listener registered before it fires hears it
OnClose(q) ==
    /\ hostAlive
    /\ query[q].child = "exited"
    /\ query[q].pc # "ended"
    /\ ~query[q].closeFired
    /\ LET r == [query[q] EXCEPT !.closeFired = TRUE]
       IN query' = [query EXCEPT ![q] =
              IF r.closeListener /\ r.pc = "waitClose"
              THEN Leave(r, IF IsCleanExit(r.code) THEN "returned" ELSE "raised")
              ELSE r]
    /\ UNCHANGED <<hostAlive, sessions, sessInits, now>>
    /\ UNCHANGED storeVars
    /\ UNCHANGED argVars

\* abortController.abort(): the 'abort' event runs the listeners registered so far
Abort(q) ==
    /\ hostAlive
    /\ query[q].pc \in {"created", "reading", "yielded", "waitClose"}
    /\ ~query[q].aborted
    /\ LET r == [query[q] EXCEPT !.aborted = TRUE]
       IN query' = [query EXCEPT ![q] =
              IF r.abortListener /\ r.child # "none" THEN Kill(r) ELSE r]
    /\ UNCHANGED <<hostAlive, sessions, sessInits, now>>
    /\ UNCHANGED storeVars
    /\ UNCHANGED argVars

\* ------------------------------------------- the arguments of a query
\* the names of the servers the provider may have configured, the tool names
\* it may allow by default, and the permission broker's server and tool
ServerNames == {"github", "filesystem"}
ToolNames == {"mcp__github", "mcp__filesystem"}
PermissionServer == "permission-prompt"
PermissionTool == "mcp__permission-prompt"

\* the lists of at most n tool names
RECURSIVE ToolLists(_)
ToolLists(n) ==
    IF n = 0 THEN {<<>>}
    ELSE ToolLists(n - 1) \cup
         {Append(list, tool) : list \in {l \in ToolLists(n - 1) : Len(l) = n - 1},
                               tool \in ToolNames}
ProviderConfigs == [servers : SUBSET ServerNames, tools : ToolLists(MaxTools)]

\* this.mcpManager.getServerConfiguration(): the server map (its names; the
\* entries are passed on as they are), and getDefaultAllowedTools(): the
\* default list, supplied anew at every call
GetServerConfiguration == mcpManager.servers
GetDefaultAllowedTools == mcpManager.tools

\* a flag that is not passed, and one that is passed with a value
NoFlag == [passed |-> FALSE]
Flag(value) == [passed |-> TRUE, value |-> value]

\* finalMcpServers: the provider's map, with the permission-prompt entry
\* spread over it when there is a Slack context
MergedServers(mcpServers, slackContext) ==
    IF slackContext THEN mcpServers \cup {PermissionServer} ELSE mcpServers

\* mutant: the permission tool is allowed whether or not there is a context
AllowedTools_Always(defaultMcpTools, slackContext) ==
    Append(defaultMcpTools, PermissionTool)
\* defaultMcpTools after the push for a Slack context
AllowedTools(defaultMcpTools, slackContext) ==
    IF slackContext THEN Append(defaultMcpTools, PermissionTool) ELSE defaultMcpTools

\* the tool-server part of args, with what it was built from
BuildArgs(slackContext) ==
    LET finalMcpServers == MergedServers(GetServerConfiguration, slackContext)
        defaultMcpTools == AllowedTools(GetDefaultAllowedTools, slackContext)
    IN [built |-> TRUE,
        slackContext |-> slackContext,
        servers |-> mcpManager.servers,
        defaults |-> mcpManager.tools,
        permissionMode |-> IF slackContext THEN "default" ELSE "bypassPermissions",
        mcpConfig |-> IF finalMcpServers # {} THEN Flag(finalMcpServers) ELSE NoFlag,
        allowedTools |-> IF finalMcpServers # {} /\ Len(defaultMcpTools) > 0
                         THEN Flag(defaultMcpTools) ELSE NoFlag]

\* streamQuery(...) builds the arguments of a query, with or without a Slack
\* context
StreamQueryArgs(slackContext) ==
    /\ hostAlive
    /\ args' = BuildArgs(slackContext)
    /\ UNCHANGED <<mcpManager, hostAlive, sessions, query, sessInits, now>>
    /\ UNCHANGED <<baseDirectory, configs, saveTimer, saves, dirExists, disk, result,
                   paths, fresh, saveLog, lastMutation>>

\* the provider's configuration changes between two queries
McpReload(config) ==
    /\ mcpManager' = config
    /\ UNCHANGED <<args, hostAlive, sessions, query, sessInits, now>>
    /\ UNCHANGED <<baseDirectory, configs, saveTimer, saves, dirExists, disk, result,
                   paths, fresh, saveLog, lastMutation>>

\* ------------------------------------------------ cleanupInactiveSessions
\* the default of maxAge, the thresholds the sweeps are called with, and the
\* step of the clock between two events of a conversation
DefaultMaxAge == 30 * 60 * 1000
MaxAges == {DefaultMaxAge, DefaultMaxAge \div 2}
SessionTickMs == DefaultMaxAge \div 2

\* mutant: a record whose age has just reached maxAge is removed too
IsInactive_AtThreshold(record, maxAge) == now - record.lastActivity >= maxAge
\* now - session.lastActivity.getTime() > maxAge
IsInactive(record, maxAge) == now - record.lastActivity > maxAge

\* cleanupInactiveSessions(maxAge): every record whose last activity is older
\* than maxAge is deleted from the map. (A sweep is followed only while no
\* generator in flight holds a record: a record a generator holds outlives its
\* deletion as an object the map no longer knows.)
CleanupInactiveSessions(maxAge) ==
    /\ hostAlive
    /\ \A q \in Queries :
          query[q].pc \in {"idle", "ended"} \/ query[q].session = NoSession
    /\ sessions' = [k \in Keys |->
           IF sessions[k] # NoRecord /\ IsInactive(sessions[k], maxAge)
           THEN NoRecord ELSE sessions[k]]
    /\ UNCHANGED <<hostAlive, query, sessInits, now>>
    /\ UNCHANGED storeVars
    /\ UNCHANGED argVars

\* time passes in a conversation
TimePasses ==
    /\ now < MaxSessionTicks * SessionTickMs
    /\ now' = now + SessionTickMs
    /\ UNCHANGED <<hostAlive, sessions, query, sessInits>>
    /\ UNCHANGED storeVars
    /\ UNCHANGED argVars

\* ------------------------------------------------- WorkingDirectoryManager
SAVE_DEBOUNCE_MS == 1000
\* the clock step: half a debounce window
TickMs == SAVE_DEBOUNCE_MS \div 2
PERSISTENCE_VERSION == "1.0"

\* an optional argument that was not given
Undefined == "undefined"
IsSet(v) == v # Undefined /\ v # ""
Channels == {"C1", "D1"}
Threads == {Undefined, "t1"}
Users == {"U1"}

\* the file system at start, and the process's cwd
ExistingDirs == {"/work", "/base/proj", "/cwd/proj", "/cwd/only", "/cwd/doc"}
ExistingFiles == {"/file", "/base/doc"}
Cwd == "/cwd"
BaseDirectories == {"", "/base"}
DirectoryInputs == {"/work", "/gone", "/file", "proj"}
Null == "null"

\* String.prototype.startsWith
StartsWith(str, prefix) ==
    Len(str) >= Len(prefix) /\ SubSeq(str, 1, Len(prefix)) = prefix

\* fs.existsSync, fs.statSync(...).isDirectory()
ExistsSync(path) == path \in paths.dirs \cup paths.files
IsDirectory(path) == path \in paths.dirs

\* path.isAbsolute, path.join, path.resolve (on normalized inputs)
IsAbsolute(path) == StartsWith(path, "/")
PathJoin(a, b) == a \o "/" \o b
PathResolve(path) == IF IsAbsolute(path) THEN path ELSE PathJoin(Cwd, path)

GetConfigKey(channelId, threadTs, userId) ==
    IF IsSet(threadTs) THEN channelId \o "-" \o threadTs
    ELSE IF IsSet(userId) /\ StartsWith(channelId, "D") THEN channelId \o "-" \o userId
    ELSE channelId

\* mutant: the cwd-relative candidate is tried before the base-relative one
ResolveDirectory_CwdFirst(directory) ==
    IF IsAbsolute(directory)
    THEN IF ExistsSync(directory) THEN PathResolve(directory) ELSE Null
    ELSE IF ExistsSync(PathResolve(directory)) THEN PathResolve(directory)
    ELSE IF baseDirectory # "" /\ ExistsSync(PathJoin(baseDirectory, directory))
    THEN PathResolve(PathJoin(baseDirectory, directory))
    ELSE Null
\* resolveDirectory(directory)
ResolveDirectory(directory) ==
    IF IsAbsolute(directory)
    THEN IF ExistsSync(directory) THEN PathResolve(directory) ELSE Null
    ELSE IF baseDirectory # "" /\ ExistsSync(PathJoin(baseDirectory, directory))
    THEN PathResolve(PathJoin(baseDirectory, directory))
    ELSE IF ExistsSync(PathResolve(directory)) THEN PathResolve(directory)
    ELSE Null

\* Date.prototype.toISOString
ToISOString(ms) == <<"ISO-8601", ms>>

\* the PersistenceData document saveToDisk builds from the map
ScopeType(config) ==
    IF IsSet(config.threadTs) THEN "thread"
    ELSE IF StartsWith(config.channelId, "D") THEN "dm" ELSE "channel"
Serialize(map) ==
    [version |-> PERSISTENCE_VERSION,
     directories |-> [key \in DOMAIN map |->
         [type |-> ScopeType(map[key]),
          channelId |-> map[key].channelId,
          threadTs |-> map[key].threadTs,
          userId |-> map[key].userId,
          directory |-> map[key].directory,
          setAt |-> ToISOString(map[key].setAt)]]]

NoTimer == [armedAt |-> -1, due |-> -1]
NoFile == [exists |-> FALSE]
EmptyMap == [key \in {} |-> NoFile]

\* Map.prototype.set, Map.prototype.delete
MapSet(map, key, value) ==
    [k \in DOMAIN map \cup {key} |-> IF k = key THEN value ELSE map[k]]
MapDelete(map, key) == [k \in DOMAIN map \ {key} |-> map[k]]

\* the keys of a map in iteration order (the model keeps no insertion order:
\* the keys come in one fixed order; keys being distinct, nothing that is done
\* entry by entry depends on it)
RECURSIVE Entries(_)
Entries(keys) ==
    IF keys = {} THEN <<>>
    ELSE LET key == CHOOSE k \in keys : TRUE
         IN <<key>> \o Entries(keys \ {key})

\* JSON.stringify(data, null, 2): the text is denoted by the value it decodes
\* to, an ordered list of key and entry; a property whose value is undefined
\* (threadTs and userId are optional) is left out of its object
OptionalFields == {"threadTs", "userId"}
JsonStringify(data) ==
    LET order == Entries(DOMAIN data.directories)
    IN [version |-> data.version,
        directories |-> [i \in 1..Len(order) |->
            LET entry == data.directories[order[i]]
            IN [key |-> order[i],
                entry |-> [f \in {g \in DOMAIN entry :
                                 g \notin OptionalFields \/ entry[g] # Undefined} |->
                            entry[f]]]]]

\* what the persistence file can hold besides a document: nothing readable,
\* text that is not JSON, the beginning of a text; and JSON's null
Unreadable == [exists |-> TRUE, readable |-> FALSE]
Undecodable == [text |-> "{oops"]
Truncated(text) == [truncated |-> text]
NullValue == [null |-> TRUE]
SyntaxError == [name |-> "SyntaxError"]

\* JSON.parse(content)
JsonParseFile(content) ==
    IF "version" \in DOMAIN content THEN content ELSE SyntaxError

\* entry.channelId and the like: undefined when the property is missing
Field(entry, f) == IF f \in DOMAIN entry THEN entry[f] ELSE Undefined
\* new Date(entry.setAt): the instant the ISO text names, an invalid date (-1)
\* when the property is missing
FromISOString(entry) == IF "setAt" \in DOMAIN entry THEN entry.setAt[2] ELSE -1

\* mutant: the version of the document is not looked at
VersionMatches_Any(data) == TRUE
\* data.version !== this.PERSISTENCE_VERSION
VersionMatches(data) == data.version = PERSISTENCE_VERSION

\* the for loop of loadFromDisk from the i-th entry on: an entry whose
\* directory exists is set, one whose directory does not is skipped, and a
\* null entry throws (entry.channelId of null), which ends the loop in the
\* catch with the map as it is
RECURSIVE LoadEntries(_, _, _)
LoadEntries(map, entries, i) ==
    IF i > Len(entries) THEN map
    ELSE IF entries[i].entry = NullValue THEN map
    ELSE LET entry == entries[i].entry
             config == [channelId |-> Field(entry, "channelId"),
                        threadTs |-> Field(entry, "threadTs"),
                        userId |-> Field(entry, "userId"),
                        directory |-> Field(entry, "directory"),
                        setAt |-> FromISOString(entry)]
         IN LoadEntries(IF ExistsSync(config.directory)
                        THEN MapSet(map, entries[i].key, config) ELSE map,
                        entries, i + 1)

\* loadFromDisk() on a store whose map is `map`: the map it leaves. Nothing is
\* raised: every failure ends in the catch, which logs
LoadFromDisk(map, file) ==
    IF file = NoFile THEN map
    ELSE IF file = Unreadable THEN map
    ELSE LET data == JsonParseFile(file)
         IN IF data = SyntaxError THEN map
            ELSE IF ~VersionMatches(data) THEN map
            ELSE LoadEntries(EmptyMap, data.directories, 1)

\* no operation has returned yet; what removeWorkingDirectory returns
NoResult == [called |-> FALSE]
Removed(deleted) == [removed |-> deleted]

\* no store constructed yet
NoStore == [constructed |-> FALSE]

InitStore ==
    /\ baseDirectory \in BaseDirectories
    /\ paths = [dirs |-> ExistingDirs, files |-> ExistingFiles]
    /\ fresh = NoStore
    /\ configs = EmptyMap
    /\ saveTimer = [field |-> NoTimer, pending |-> {}]
    /\ saves = {}
    /\ dirExists = FALSE
    /\ disk = NoFile
    /\ result = NoResult
    /\ saveLog = <<>>
    /\ lastMutation = [count |-> 0, at |-> 0, bursts |-> 0]

Init == InitStream /\ InitStore

\* mutant: the pending timer is not cancelled
ClearTimeout_Forgotten(pending, timer) == pending
\* clearTimeout(this.saveTimer)
ClearTimeout(pending, timer) == pending \ {timer}

\* mutant: a save is scheduled only when none is pending; the pending timer
\* is left to fire when it was due
ScheduleSave_KeepsPending(st) ==
    IF st.field \in st.pending THEN st
    ELSE LET timer == [armedAt |-> now, due |-> now + SAVE_DEBOUNCE_MS]
         IN [field |-> timer, pending |-> st.pending \cup {timer}]
\* scheduleSave(): the timer held in saveTimer is cleared and a new one armed
ScheduleSave(st) ==
    LET timer == [armedAt |-> now, due |-> now + SAVE_DEBOUNCE_MS]
    IN [field |-> timer,
        pending |-> (IF st.field # NoTimer THEN ClearTimeout(st.pending, st.field)
                     ELSE st.pending) \cup {timer}]

\* a timer that is due runs before anything else happens at that instant
NoTimerDue == \A timer \in saveTimer.pending : timer.due > now

\* history of the map-changing mutations: a mutation opens a new burst when
\* it is the first or comes a full window after the previous one
Mutated ==
    lastMutation' =
        [count |-> lastMutation.count + 1,
         at |-> now,
         bursts |-> lastMutation.bursts +
             (IF lastMutation.count = 0 \/ now - lastMutation.at >= SAVE_DEBOUNCE_MS
              THEN 1 ELSE 0)]

SetWorkingDirectory(channelId, directory, threadTs, userId, statOk) ==
    /\ NoTimerDue
    /\ lastMutation.count < MaxMutations
    /\ LET resolvedPath == ResolveDirectory(directory)
           key == GetConfigKey(channelId, threadTs, userId)
           workingDirConfig ==
               [channelId |-> channelId, threadTs |-> threadTs, userId |-> userId,
                directory |-> resolvedPath, setAt |-> now]
       IN IF resolvedPath = Null
          THEN /\ result' = [success |-> FALSE, error |-> "Directory not found"]
               /\ UNCHANGED <<configs, saveTimer, lastMutation>>
          ELSE IF ~statOk
          THEN /\ result' = [success |-> FALSE,
                             error |-> "Directory does not exist or is not accessible"]
               /\ UNCHANGED <<configs, saveTimer, lastMutation>>
          ELSE IF ~IsDirectory(resolvedPath)
          THEN /\ result' = [success |-> FALSE, error |-> "Path is not a directory"]
               /\ UNCHANGED <<configs, saveTimer, lastMutation>>
          ELSE /\ configs' = MapSet(configs, key, workingDirConfig)
               /\ saveTimer' = ScheduleSave(saveTimer)
               /\ result' = [success |-> TRUE, resolvedPath |-> resolvedPath]
               /\ Mutated
    /\ UNCHANGED <<baseDirectory, saves, dirExists, disk, paths, fresh, saveLog, now>>
    /\ UNCHANGED streamVars
    /\ UNCHANGED argVars

\* mutant: the channel or DM entry is looked up before the thread's
GetWorkingDirectory_ChannelFirst(channelId, threadTs, userId) ==
    LET threadKey == GetConfigKey(channelId, threadTs, Undefined)
        channelKey == GetConfigKey(channelId, Undefined, userId)
    IN IF channelKey \in DOMAIN configs THEN configs[channelKey].directory
       ELSE IF IsSet(threadTs) /\ threadKey \in DOMAIN configs
       THEN configs[threadKey].directory
       ELSE Undefined
\* getWorkingDirectory(channelId, threadTs, userId)
GetWorkingDirectory(channelId, threadTs, userId) ==
    LET threadKey == GetConfigKey(channelId, threadTs, Undefined)
        channelKey == GetConfigKey(channelId, Undefined, userId)
    IN IF IsSet(threadTs) /\ threadKey \in DOMAIN configs
       THEN configs[threadKey].directory
       ELSE IF channelKey \in DOMAIN configs THEN configs[channelKey].directory
       ELSE Undefined

\* mutant: a save is scheduled whether or not an entry was deleted
RemoveWorkingDirectory_AlwaysSchedules(channelId, threadTs, userId) ==
    /\ NoTimerDue
    /\ lastMutation.count < MaxMutations
    /\ LET key == GetConfigKey(channelId, threadTs, userId)
       IN /\ configs' = MapDelete(configs, key)
          /\ saveTimer' = ScheduleSave(saveTimer)
          /\ result' = Removed(key \in DOMAIN configs)
          /\ IF key \in DOMAIN configs THEN Mutated ELSE UNCHANGED lastMutation
    /\ UNCHANGED <<baseDirectory, saves, dirExists, disk, paths, fresh, saveLog, now>>
    /\ UNCHANGED streamVars
    /\ UNCHANGED argVars
\* removeWorkingDirectory(channelId, threadTs, userId)
RemoveWorkingDirectory(channelId, threadTs, userId) ==
    /\ NoTimerDue
    /\ lastMutation.count < MaxMutations
    /\ LET key == GetConfigKey(channelId, threadTs, userId)
       IN IF key \in DOMAIN configs
          THEN /\ configs' = MapDelete(configs, key)
               /\ saveTimer' = ScheduleSave(saveTimer)
               /\ result' = Removed(TRUE)
               /\ Mutated
          ELSE /\ result' = Removed(FALSE)
               /\ UNCHANGED <<configs, saveTimer, lastMutation>>
    /\ UNCHANGED <<baseDirectory, saves, dirExists, disk, paths, fresh, saveLog, now>>
    /\ UNCHANGED streamVars
    /\ UNCHANGED argVars

\* time passes while a timer is pending, up to the next one due (with no timer
\* pending nothing of the store depends on the time that passes)
Tick ==
    /\ NoTimerDue
    /\ saveTimer.pending # {}
    /\ LET dues == {timer.due : timer \in saveTimer.pending}
           next == now + TickMs
       IN now' = IF \E d \in dues : d < next
                 THEN CHOOSE d \in dues : \A e \in dues : d <= e
                 ELSE next
    /\ UNCHANGED <<baseDirectory, configs, saveTimer, saves, dirExists, disk, result,
                   paths, fresh, saveLog, lastMutation>>
    /\ UNCHANGED streamVars
    /\ UNCHANGED argVars

\* mutant: the catch block of saveToDisk rethrows; the rejected promise of the
\* timer callback has no handler and ends the process
Caught_Rethrown(alive) == FALSE
\* catch (error) { this.logger.error(...) } of saveToDisk: the error ends there
Caught(alive) == alive

\* the timer callback: saveToDisk() up to its first await. The document is
\* built from the map as it is now; mkdirSync may throw
TimerFires(timer, mkdirOk) ==
    /\ timer \in saveTimer.pending
    /\ timer.due = now
    /\ saveTimer' = [saveTimer EXCEPT !.pending = @ \ {timer}]
    /\ LET data == Serialize(configs)
       IN /\ saveLog' = Append(saveLog, [at |-> now, data |-> data])
          /\ IF dirExists \/ mkdirOk
             THEN /\ dirExists' = TRUE
                  /\ saves' = saves \cup {[tmpFile |-> now, data |-> data,
                                           await |-> "writeFile", tmp |-> "absent"]}
                  /\ UNCHANGED hostAlive
             ELSE /\ hostAlive' = Caught(hostAlive)
                  /\ UNCHANGED <<dirExists, saves>>
    /\ UNCHANGED <<baseDirectory, configs, disk, result, paths, fresh, lastMutation, now>>
    /\ UNCHANGED <<sessions, query, sessInits>>
    /\ UNCHANGED argVars

\* fs.promises.writeFile(tmpFile, text) under way: the temporary file exists
\* and holds the beginning of the text
WriteFileProgress(save) ==
    /\ save \in saves
    /\ save.await = "writeFile"
    /\ save.tmp = "absent"
    /\ saves' = (saves \ {save}) \cup {[save EXCEPT !.tmp = "partial"]}
    /\ UNCHANGED <<baseDirectory, configs, saveTimer, dirExists, disk, result,
                   paths, fresh, saveLog, lastMutation, now>>
    /\ UNCHANGED streamVars
    /\ UNCHANGED argVars

\* await fs.promises.writeFile(tmpFile, ...) settles: the whole text is in the
\* temporary file, or the write failed and the save ends in the catch
WriteFileSettles(save, ok) ==
    /\ save \in saves
    /\ save.await = "writeFile"
    /\ saves' = IF ok
                THEN (saves \ {save}) \cup {[save EXCEPT !.await = "rename", !.tmp = "complete"]}
                ELSE saves \ {save}
    /\ hostAlive' = IF ok THEN hostAlive ELSE Caught(hostAlive)
    /\ UNCHANGED <<baseDirectory, configs, saveTimer, dirExists, disk, result,
                   paths, fresh, saveLog, lastMutation, now>>
    /\ UNCHANGED <<sessions, query, sessInits>>
    /\ UNCHANGED argVars

\* what the temporary file of a save holds
TmpContent(save) ==
    IF save.tmp = "complete" THEN JsonStringify(save.data)
    ELSE Truncated(JsonStringify(save.data))

\* mutant: the rename does not wait for the write to settle
AwaitedWriteFile_NotAwaited(save) == TRUE
\* await fs.promises.writeFile(...) comes before the rename
AwaitedWriteFile(save) == save.await = "rename"

\* await fs.promises.rename(tmpFile, this.persistencePath) settles: the
\* destination is replaced in one step by the temporary file, or is left as
\* it was (a rename of a file that does not exist fails)
RenameSettles(save, ok) ==
    /\ save \in saves
    /\ AwaitedWriteFile(save)
    /\ ok => save.tmp # "absent"
    /\ saves' = saves \ {save}
    /\ disk' = IF ok THEN TmpContent(save) ELSE disk
    /\ hostAlive' = IF ok THEN hostAlive ELSE Caught(hostAlive)
    /\ UNCHANGED <<baseDirectory, configs, saveTimer, dirExists, result,
                   paths, fresh, saveLog, lastMutation, now>>
    /\ UNCHANGED <<sessions, query, sessInits>>
    /\ UNCHANGED argVars

\* the directories somebody else may delete while the bot runs
Mortal == {"/work"}

\* the environment: a directory is deleted, and a regular file may take its name
PathRemoved(path, replaced) ==
    /\ path \in Mortal \cap paths.dirs
    /\ paths' = [dirs |-> paths.dirs \ {path},
                 files |-> IF replaced THEN paths.files \cup {path} ELSE paths.files]
    /\ UNCHANGED <<baseDirectory, configs, saveTimer, saves, dirExists, disk, result,
                   fresh, saveLog, lastMutation, now>>
    /\ UNCHANGED streamVars
    /\ UNCHANGED argVars

\* new WorkingDirectoryManager(): a store with an empty map that loads the
\* persistence file; kept with the file and the file system it saw
NewStore ==
    /\ fresh' = [constructed |-> TRUE, from |-> disk, paths |-> paths,
                 configs |-> LoadFromDisk(EmptyMap, disk)]
    /\ fresh' # fresh
    /\ UNCHANGED <<baseDirectory, configs, saveTimer, saves, dirExists, disk, result,
                   paths, saveLog, lastMutation, now>>
    /\ UNCHANGED streamVars
    /\ UNCHANGED argVars

\* the operations of the store, the timer and the saves, with the channels
\* the calls are made for and the ways a file system call may come out
StoreOps(channels, outcomes) ==
    \/ \E channelId \in channels, directory \in DirectoryInputs,
          threadTs \in Threads, userId \in Users :
          \E statOk \in (IF ResolveDirectory(directory) = Null THEN {TRUE} ELSE outcomes) :
             SetWorkingDirectory(channelId, directory, threadTs, userId, statOk)
    \/ \E channelId \in channels, threadTs \in Threads, userId \in Users :
          RemoveWorkingDirectory(channelId, threadTs, userId)
    \/ Tick
    \/ \E timer \in saveTimer.pending, mkdirOk \in outcomes : TimerFires(timer, mkdirOk)
    \/ \E save \in saves : WriteFileProgress(save)
    \/ \E save \in saves, ok \in outcomes : WriteFileSettles(save, ok)
    \/ \E save \in saves, ok \in outcomes : RenameSettles(save, ok)

\* one store: calls, timer and saves, every file system call failing or not
StoreNext == StoreOps(Channels, BOOLEAN)

StoreSpec == Init /\ [][StoreNext]_vars

\* a store whose saves succeed, directories that are deleted, and stores
\* constructed on the file the first one persisted
RoundTripChannels == {"C1"}
RoundTripNext ==
    \/ StoreOps(RoundTripChannels, {TRUE})
    \/ \E path \in Mortal, replaced \in BOOLEAN : PathRemoved(path, replaced)
    \/ NewStore

RoundTripSpec == Init /\ [][RoundTripNext]_vars

\* setWorkingDirectory with inputs of every kind: absolute (a directory, a
\* file, nothing), relative (under the base and the cwd, under the cwd only, a
\* file under the base and a directory under the cwd, nowhere)
ResolveInputs == {"/work", "/file", "/gone", "proj", "only", "doc", "nope"}
ResolveNext ==
    \E channelId \in Channels, directory \in ResolveInputs,
       threadTs \in Threads, userId \in Users, statOk \in BOOLEAN :
       SetWorkingDirectory(channelId, directory, threadTs, userId, statOk)

ResolveSpec == Init /\ [][ResolveNext]_vars

\* what a store may find in the persistence file when it is constructed: the
\* entries of a document, the last one null and one for a directory that does
\* not exist
PersistedEntries ==
    {[key |-> "C1",
      entry |-> [type |-> "channel", channelId |-> "C1", userId |-> "U1",
                 directory |-> "/work", setAt |-> ToISOString(0)]],
     [key |-> "C1-t1",
      entry |-> [type |-> "thread", channelId |-> "C1", threadTs |-> "t1",
                 userId |-> "U1", directory |-> "/base/proj", setAt |-> ToISOString(0)]],
     [key |-> "D1-U1",
      entry |-> [type |-> "dm", channelId |-> "D1", userId |-> "U1",
                 directory |-> "/gone", setAt |-> ToISOString(0)]],
     [key |-> "D1-t1", entry |-> NullValue]}
\* the lists of at most n entries with distinct keys
RECURSIVE EntryLists(_)
EntryLists(n) ==
    IF n = 0 THEN {<<>>}
    ELSE EntryLists(n - 1) \cup
         {Append(list, e) : list \in {l \in EntryLists(n - 1) : Len(l) = n - 1},
                            e \in PersistedEntries}
DistinctKeys(list) == \A i, j \in 1..Len(list) : list[i].key = list[j].key => i = j
PersistedVersions == {PERSISTENCE_VERSION, "0.9"}
PersistedDocuments ==
    [version : PersistedVersions,
     directories : {list \in EntryLists(MaxEntries) : DistinctKeys(list)}]
PersistedFiles ==
    {NoFile, Unreadable, Undecodable} \cup PersistedDocuments
        \cup {Truncated(document) : document \in PersistedDocuments}

\* before any store is constructed, with some file left by an earlier run
InitLoad ==
    /\ InitStream
    /\ baseDirectory \in BaseDirectories
    /\ paths = [dirs |-> ExistingDirs, files |-> ExistingFiles]
    /\ fresh = NoStore
    /\ configs = EmptyMap
    /\ saveTimer = [field |-> NoTimer, pending |-> {}]
    /\ saves = {}
    /\ dirExists = TRUE
    /\ disk \in PersistedFiles
    /\ result = NoResult
    /\ saveLog = <<>>
    /\ lastMutation = [count |-> 0, at |-> 0, bursts |-> 0]

LoadNext ==
    \/ \E path \in Mortal, replaced \in BOOLEAN : PathRemoved(path, replaced)
    \/ NewStore

LoadSpec == InitLoad /\ [][LoadNext]_vars

\* mutant: after dropping entries the load schedules a save of what is left
Construct_Repersists ==
    /\ ~fresh.constructed
    /\ configs' = LoadFromDisk(configs, disk)
    /\ fresh' = [constructed |-> TRUE, from |-> disk, paths |-> paths,
                 configs |-> configs']
    /\ saveTimer' = ScheduleSave(saveTimer)
    /\ UNCHANGED <<baseDirectory, saves, dirExists, disk, result,
                   paths, saveLog, lastMutation, now>>
    /\ UNCHANGED streamVars
    /\ UNCHANGED argVars
\* the constructor of the store that is then used: loadFromDisk() into its
\* empty map; kept in fresh as it was constructed
Construct ==
    /\ ~fresh.constructed
    /\ configs' = LoadFromDisk(configs, disk)
    /\ fresh' = [constructed |-> TRUE, from |-> disk, paths |-> paths,
                 configs |-> configs']
    /\ UNCHANGED <<baseDirectory, saveTimer, saves, dirExists, disk, result,
                   paths, saveLog, lastMutation, now>>
    /\ UNCHANGED streamVars
    /\ UNCHANGED argVars

\* the file an earlier run left: a document of the store's version with the
\* entries that are not null, one of them for a directory that is gone
ReloadDocument ==
    [version |-> PERSISTENCE_VERSION,
     directories |-> Entries({e \in PersistedEntries : e.entry # NullValue})]

\* before the store is constructed, with that file
InitReload ==
    /\ InitStream
    /\ baseDirectory \in BaseDirectories
    /\ paths = [dirs |-> ExistingDirs, files |-> ExistingFiles]
    /\ fresh = NoStore
    /\ configs = EmptyMap
    /\ saveTimer = [field |-> NoTimer, pending |-> {}]
    /\ saves = {}
    /\ dirExists = TRUE
    /\ disk = ReloadDocument
    /\ result = NoResult
    /\ saveLog = <<>>
    /\ lastMutation = [count |-> 0, at |-> 0, bursts |-> 0]

\* a directory may be deleted before the store is constructed; once it is
\* constructed it is used, and its saves succeed
ReloadNext ==
    \/ /\ ~fresh.constructed
       /\ \E path \in Mortal, replaced \in BOOLEAN : PathRemoved(path, replaced)
    \/ Construct
    \/ /\ fresh.constructed
       /\ StoreOps(RoundTripChannels, {TRUE})

ReloadSpec == InitReload /\ [][ReloadNext]_vars

\* ---------------------------------------------------------- specifications
QueryNext(q, lines, maxLines, maxRuns) ==
    \/ CreateSession(KeyOf(q))
    \/ \E s \in {NoSession, KeyOf(q)} : Call(q, s, maxRuns)
    \/ \E spawned \in {"ok", "throws", "error"} : FirstPull(q, spawned)
    \/ OnChildError(q)
    \/ \E line \in lines : Emit(q, line, maxLines)
    \/ \E code \in ExitCodes : ChildExit(q, code)
    \/ ReadLine(q)
    \/ Pull(q)
    \/ Return(q)
    \/ EndOfLines(q)
    \/ OnClose(q)
    \/ Abort(q)

\* one conversation, its queries one after the other
Next == QueryNext("q1", Lines, MaxLines, MaxRuns)

Spec == Init /\ [][Next]_vars

\* The scheduling the event loop and the claim's hypotheses give: a pending
\* callback or generator step eventually runs, the consumer that is asked to
\* keep pulling pulls, the subprocess exits. Nothing forces the subprocess to
\* write, the caller to abort or the consumer to stop early.
Fairness ==
    /\ WF_vars(\E spawned \in {"ok", "throws", "error"} : FirstPull("q1", spawned))
    /\ WF_vars(OnChildError("q1"))
    /\ WF_vars(\E code \in ExitCodes : ChildExit("q1", code))
    /\ WF_vars(ReadLine("q1"))
    /\ WF_vars(Pull("q1"))
    /\ WF_vars(EndOfLines("q1"))
    /\ WF_vars(OnClose("q1"))

FairSpec == Spec /\ Fairness

\* two conversations, one query each, running concurrently
ConcNext == \E q \in Queries : QueryNext(q, ConcLines, ConcMaxLines, 1)

ConcSpec == Init /\ [][ConcNext]_vars

\* the records of two conversations, one of them with a query, while time
\* passes and sweeps are triggered
SessionNext ==
    \/ \E k \in Keys : CreateSession(k)
    \/ QueryNext("q1", {LineInitA}, 1, 1)
    \/ TimePasses
    \/ \E maxAge \in MaxAges : CleanupInactiveSessions(maxAge)

SessionSpec == Init /\ [][SessionNext]_vars

\* a handler whose provider has some configuration
InitArgs ==
    /\ mcpManager \in ProviderConfigs
    /\ args = NoArgs
    /\ hostAlive = TRUE
    /\ sessions = [k \in Keys |-> NoRecord]
    /\ query = [q \in Queries |-> IdleQuery]
    /\ sessInits = [k \in Keys |-> {}]
    /\ now = 0
    /\ InitStore

ArgsNext ==
    \/ \E slackContext \in BOOLEAN : StreamQueryArgs(slackContext)
    \/ \E config \in ProviderConfigs : McpReload(config)

ArgsSpec == InitArgs /\ [][ArgsNext]_vars

\* ------------------------------------------------------------------ claims

\* C1: every query whose subprocess runs (and so eventually exits) and whose
\* consumer keeps pulling eventually ends, by returning or by raising, in
\* whatever order stdout ends, the 'close' event fires and the generator
\* starts to wait for 'close'.
C1_QueryEventuallyEnds ==
    [](query["q1"].child = "running" => <>(query["q1"].pc = "ended"))

\* the messages a sequence of stdout lines decodes to, in order
RECURSIVE MessagesOf(_)
MessagesOf(lines) ==
    IF lines = <<>> THEN <<>>
    ELSE LET rest == MessagesOf(Tail(lines))
         IN IF Head(lines) \in {LineBlank, LineGarbage} THEN rest
            ELSE <<JsonParse(Head(lines))>> \o rest

\* the number of lines of a sequence that are the given line
RECURSIVE Count(_, _)
Count(lines, line) ==
    IF lines = <<>> THEN 0
    ELSE (IF Head(lines) = line THEN 1 ELSE 0) + Count(Tail(lines), line)

\* the session_ids of the init messages of a sequence of messages, in order
RECURSIVE InitIds(_)
InitIds(messages) ==
    IF messages = <<>> THEN <<>>
    ELSE (IF Head(messages).type = "system" /\ Head(messages).subtype = "init"
          THEN <<Head(messages).session_id>> ELSE <<>>) \o InitIds(Tail(messages))

\* the query ended by itself on the subprocess's close event
EndedOnClose(r) == r.pc = "ended" /\ r.child = "exited" /\ r.outcome \in {"returned", "raised"}

\* C2: the consumer is given exactly the decodable lines read so far, each once
\* and in stdout order; a line that fails to decode neither ends the stream
\* (a query that ends on the close event has read every line, so N lines with
\* one malformed give the N-1 others) nor raises: with exit code 0 the query
\* that ends on the close event returns.
C2_MalformedLineSkipped ==
    LET r == query["q1"]
    IN /\ r.yielded = MessagesOf(SubSeq(r.emitted, 1, r.consumed))
       /\ EndedOnClose(r) => r.consumed = Len(r.emitted)
       /\ EndedOnClose(r) /\ r.code = "0" => r.outcome = "returned"

\* C2 witness: three non-blank lines, the middle one malformed, exit code 0:
\* the query returned after yielding the two others
C2_Witness ==
    LET r == query["q1"]
    IN /\ r.outcome = "returned" /\ r.code = "0"
       /\ r.emitted = <<LineInitA, LineGarbage, LineAssistant>>
       /\ Len(r.yielded) = 2

\* C3: a query that ends on the close event returns when the exit code is 0 or
\* absent (null) and raises for any other code, and by then every decodable
\* stdout line has been yielded.
C3_ExitCodeDecidesOutcome ==
    LET r == query["q1"]
    IN EndedOnClose(r) =>
          /\ r.outcome = "returned" <=> r.code \in {"0", "null"}
          /\ r.outcome = "raised" <=> r.code = "1"
          /\ r.yielded = MessagesOf(r.emitted)

\* C3 witness: the subprocess was killed by a signal (no exit code) after two
\* messages and the query returned
C3_Witness ==
    LET r == query["q1"]
    IN r.outcome = "returned" /\ r.code = "null" /\ Len(r.yielded) = 2

\* C4: a query started with session S whose previous query with S received
\* init messages carrying session_id X passes resume X; a query started with
\* no session, or with a session that carries no identifier, passes no resume
\* argument.
C4_ResumeCarriesCapturedId ==
    LET r == query["q1"]
    IN r.pc \notin {"idle", "created"} =>
          /\ r.session = NoSession => r.resume = NoId
          /\ \A X \in SessionIds :
                r.session # NoSession /\ r.prevInits = {X} => r.resume = X
          /\ (r.session # NoSession /\ r.consumed = 0
                /\ sessions[r.session].sessionId = NoId) => r.resume = NoId

\* C4 witness: the second query of the conversation resumes the identifier
\* the first one received
C4_Witness ==
    LET r == query["q1"]
    IN r.runs = 2 /\ r.session = "k1" /\ r.prevInits = {"sid_b"} /\ r.resume = "sid_b"

\* C5: within one query only the first init message sets the session's
\* identifier (it equals the first init's session_id whatever follows), and
\* nothing else of any session record is changed.
C5_FirstInitWins ==
    LET r == query["q1"]
    IN /\ (r.session # NoSession /\ InitIds(r.yielded) # <<>>)
            => sessions[r.session].sessionId = Head(InitIds(r.yielded))
       /\ \A k \in Keys : sessions[k] # NoRecord =>
              sessions[k].isActive /\ sessions[k].lastActivity = 0
       /\ sessions["k2"] = NoRecord

\* C6: the finally block runs exactly once per query, when it ends and not
\* before; after it the line reader is closed and the subprocess, if one was
\* spawned, has exited or has been sent SIGTERM.
C6_CleanupExactlyOnce ==
    LET r == query["q1"]
    IN /\ r.pc = "ended" => r.cleanups = 1
       /\ r.pc # "ended" => r.cleanups = 0
       /\ r.pc = "ended" => r.rl # "open"
       /\ r.pc = "ended" => (r.child \in {"none", "exited"} \/ r.sigterm)

\* C6 witness: the consumer stopped early while the subprocess was running and
\* nobody had aborted: cleanup closed the reader and sent the signal
C6_Witness ==
    LET r == query["q1"]
    IN /\ r.outcome = "stopped" /\ r.child = "running" /\ ~r.aborted
       /\ r.cleanups = 1 /\ r.rl = "closed" /\ r.sigterm

\* C7: once the cancellation handle of a query is aborted, a subprocess of
\* that query that has not exited has been sent SIGTERM, whenever the abort
\* came.
C7_AbortDeliversSigterm ==
    LET r == query["q1"]
    IN r.aborted /\ r.child = "running" => r.sigterm

\* C8: a subprocess that could not be started makes its query raise to its
\* caller, and the failure is never an uncaught exception of the host.
C8_SpawnFailureRaisedToCaller ==
    LET r == query["q1"]
    IN r.child = "errored" => (hostAlive /\ r.pc = "ended" /\ r.outcome = "raised")

\* C9: queries on different conversation keys are independent: a step of one
\* query (its abnormal exit, its spawn failure, its cancellation) changes
\* neither what the other has yielded, nor its outcome, nor the other
\* conversation's session record.
C9_QueriesIndependent ==
    [][\A q \in Queries : \A p \in Queries \ {q} :
          query'[q] # query[q] =>
             /\ query'[p].yielded = query[p].yielded
             /\ query'[p].outcome = query[p].outcome
             /\ sessions'[KeyOf(p)] = sessions[KeyOf(p)]]_vars

\* C10: the map-changing mutations of a burst (each less than a debounce
\* window after the previous one) lead to one saveToDisk call, made one window
\* after the last of them, whose document is the whole map as that mutation
\* left it: before the window has passed the burst has no write yet and every
\* earlier burst has exactly one; and the persistence file only ever holds
\* such a document.
C10_BurstWrittenOnce ==
    LET quiet == lastMutation.at + SAVE_DEBOUNCE_MS
        written == Len(saveLog)
    IN /\ lastMutation.count = 0 => written = 0
       /\ lastMutation.count > 0 =>
             /\ now < quiet => written = lastMutation.bursts - 1
             /\ now = quiet => written \in {lastMutation.bursts - 1, lastMutation.bursts}
             /\ now > quiet => written = lastMutation.bursts
             /\ written = lastMutation.bursts =>
                   LET last == saveLog[written]
                   IN /\ last.at = quiet
                      /\ last.data.version = "1.0"
                      /\ DOMAIN last.data.directories = DOMAIN configs
                      /\ \A key \in DOMAIN configs :
                            /\ last.data.directories[key].directory = configs[key].directory
                            /\ last.data.directories[key].channelId = configs[key].channelId
                            /\ last.data.directories[key].threadTs = configs[key].threadTs
                            /\ last.data.directories[key].userId = configs[key].userId
                            /\ last.data.directories[key].setAt = <<"ISO-8601", configs[key].setAt>>
       /\ disk # NoFile => \E i \in 1..written : disk = JsonStringify(saveLog[i].data)

\* C10 witness: two mutations on different keys half a window apart, one
\* write, a full window after the second, now in the persistence file
C10_Witness ==
    /\ lastMutation = [count |-> 2, at |-> 500, bursts |-> 1]
    /\ Cardinality(DOMAIN configs) = 2
    /\ Len(saveLog) = 1
    /\ saveLog[1].at = 1500
    /\ disk = JsonStringify(saveLog[1].data)

\* C11: whatever the saves in flight are doing, the persistence file is absent
\* or holds, whole, the text one saveToDisk call serialized: it decodes, and
\* it is never the beginning of a text; and no two saves in flight write to
\* the same temporary file.
C11_DestinationNeverPartial ==
    /\ \/ disk = NoFile
       \/ /\ JsonParseFile(disk) # SyntaxError
          /\ \E i \in 1..Len(saveLog) : disk = JsonStringify(saveLog[i].data)
    /\ \A s1 \in saves, s2 \in saves : s1.tmpFile = s2.tmpFile => s1 = s2

\* C11 witness: the file holds the snapshot of an earlier save while a later
\* save, of another snapshot, has written part of its temporary file
C11_Witness ==
    /\ disk # NoFile
    /\ \E save \in saves :
          /\ save.tmp = "partial"
          /\ JsonStringify(save.data) # disk

\* a step in which a save fails: mkdirSync throws, or the write to the
\* temporary file or the rename is rejected
SaveFails ==
    \/ \E timer \in saveTimer.pending : ~dirExists /\ TimerFires(timer, FALSE)
    \/ \E save \in saves : WriteFileSettles(save, FALSE)
    \/ \E save \in saves : RenameSettles(save, FALSE)

\* C12: a step in which a save fails raises nothing (the process lives on and
\* no operation's result changes), leaves the persistence file and the map as
\* they were, and every getWorkingDirectory lookup answers after it what it
\* answered before, from the map.
C12_FailedSaveChangesNothing ==
    [][SaveFails =>
          /\ hostAlive'
          /\ result' = result
          /\ disk' = disk
          /\ configs' = configs
          /\ \A channelId \in Channels, threadTs \in Threads, userId \in Users :
                GetWorkingDirectory(channelId, threadTs, userId)' =
                    GetWorkingDirectory(channelId, threadTs, userId)]_vars

\* C12 witness: the only save so far has ended and left no file, and the map
\* still answers
C12_Witness ==
    /\ Len(saveLog) = 1
    /\ saves = {}
    /\ disk = NoFile
    /\ GetWorkingDirectory("C1", Undefined, "U1") = "/work"

\* a thread that no entry is ever set for
OtherThread == "t2"

\* C13: when the map holds an entry set for thread T of channel C and an entry
\* set for C without a thread (channel scope, or DM scope of the user), the
\* lookup for (C, T) answers the thread entry's directory, and the lookup for C
\* without a thread, or with a thread that has no entry, answers the other's.
C13_ThreadEntryFirst ==
    \A channelId \in Channels, userId \in Users, threadTs \in Threads \ {Undefined} :
        LET ofThread == {key \in DOMAIN configs :
                            /\ configs[key].channelId = channelId
                            /\ configs[key].threadTs = threadTs}
            ofChannel == {key \in DOMAIN configs :
                            /\ configs[key].channelId = channelId
                            /\ ~IsSet(configs[key].threadTs)
                            /\ configs[key].userId = userId}
        IN (ofThread # {} /\ ofChannel # {}) =>
              /\ \A key \in ofThread :
                    GetWorkingDirectory(channelId, threadTs, userId) = configs[key].directory
              /\ \A key \in ofChannel :
                    /\ GetWorkingDirectory(channelId, Undefined, userId) = configs[key].directory
                    /\ GetWorkingDirectory(channelId, OtherThread, userId) = configs[key].directory

\* C13 witness: channel C1 has a channel entry and a thread entry with
\* different directories
C13_Witness ==
    /\ {"C1", "C1-t1"} \subseteq DOMAIN configs
    /\ configs["C1"].directory # configs["C1-t1"].directory
    /\ GetWorkingDirectory("C1", "t1", "U1") = configs["C1-t1"].directory

\* the map a store should hold when it was constructed on the text of a saved
\* document: of the saved entries, those that the given paths keep
Surviving(saved, kept) == {key \in DOMAIN saved : saved[key].directory \in kept}
RoundTrip(store, kept) ==
    \E i \in 1..Len(saveLog) :
        /\ store.from = JsonStringify(saveLog[i].data)
        /\ LET saved == saveLog[i].data.directories
           IN /\ DOMAIN store.configs = Surviving(saved, kept)
              /\ \A key \in DOMAIN store.configs :
                    /\ store.configs[key].channelId = saved[key].channelId
                    /\ store.configs[key].threadTs = saved[key].threadTs
                    /\ store.configs[key].userId = saved[key].userId
                    /\ store.configs[key].directory = saved[key].directory

\* C14: a store constructed on a persisted file holds exactly the entries of
\* the saved map whose directory was still a directory when it loaded, each
\* with the key, channel, thread, user and directory it was saved with, and no
\* entry whose directory had been deleted.
C14_RoundTrip ==
    (fresh.constructed /\ fresh.from # NoFile) => RoundTrip(fresh, fresh.paths.dirs)

\* the same with "whose path still existed", directory or not
C14_RoundTripExisting ==
    (fresh.constructed /\ fresh.from # NoFile) =>
        RoundTrip(fresh, fresh.paths.dirs \cup fresh.paths.files)

\* C15: a store constructed on a document of another version is empty,
\* whatever the entries of the document.
C15_VersionMismatchLoadsNothing ==
    (/\ fresh.constructed
     /\ JsonParseFile(fresh.from) # SyntaxError
     /\ fresh.from.version # PERSISTENCE_VERSION) => fresh.configs = EmptyMap

\* C15 witness: a store constructed on a document of version 0.9 that has two
\* entries whose directories exist
C15_Witness ==
    /\ fresh.constructed
    /\ JsonParseFile(fresh.from) # SyntaxError
    /\ fresh.from.version = "0.9"
    /\ Len(fresh.from.directories) = 2
    /\ \A i \in 1..2 :
          /\ fresh.from.directories[i].entry # NullValue
          /\ fresh.from.directories[i].entry.directory \in fresh.paths.dirs
    /\ fresh.configs = EmptyMap

\* the files whose loading fails: one that cannot be read, one whose text
\* does not decode, a document of the store's version with a null entry
LoadFails(file) ==
    /\ file # NoFile
    /\ \/ JsonParseFile(file) = SyntaxError
       \/ /\ file.version = PERSISTENCE_VERSION
          /\ \E i \in 1..Len(file.directories) : file.directories[i].entry = NullValue

\* C16: a store constructed on a file whose loading fails is empty: it holds
\* no entry of that file.
C16_FailedLoadLeavesEmpty ==
    (fresh.constructed /\ LoadFails(fresh.from)) => fresh.configs = EmptyMap

\* the keys of the records a sweep with this threshold has to remove
Expired(map, maxAge) ==
    {k \in Keys : map[k] # NoRecord /\ now - map[k].lastActivity > maxAge}

\* C17: a sweep removes the records whose last activity is more than maxAge
\* ago and leaves every other record as it was, one whose age is exactly
\* maxAge included; after it no record is left that a second sweep with the
\* same maxAge at the same instant would remove.
C17_SweepRemovesExpiredOnly ==
    [][\A maxAge \in MaxAges :
          CleanupInactiveSessions(maxAge) =>
             /\ \A k \in Expired(sessions, maxAge) : sessions'[k] = NoRecord
             /\ \A k \in Keys \ Expired(sessions, maxAge) : sessions'[k] = sessions[k]
             /\ Expired(sessions', maxAge) = {}]_vars

\* C17 witness: after a sweep with the default threshold at 1.5 times the
\* threshold, the record created at the start is gone and the one whose age is
\* exactly the threshold is kept
C17_Witness ==
    /\ now = 3 * SessionTickMs
    /\ sessions["k1"] = NoRecord
    /\ sessions["k2"] # NoRecord
    /\ sessions["k2"].lastActivity = SessionTickMs
    /\ query["q1"].pc = "ended"
    /\ query["q1"].session = "k1"

\* C18: a sweep with threshold maxAge removes no record that a query used
\* (was started with, or yielded a message for) less than maxAge ago.
C18_UsedSessionSurvives ==
    [][\A maxAge \in MaxAges, q \in Queries :
          (/\ CleanupInactiveSessions(maxAge)
           /\ query[q].session # NoSession
           /\ query[q].usedAt >= 0
           /\ now < query[q].usedAt + maxAge
           /\ sessions[query[q].session] # NoRecord)
          => sessions'[query[q].session] # NoRecord]_vars

\* the candidates of an input in the order of the claim, and the first of
\* them that exists
Candidates(directory) ==
    IF IsAbsolute(directory) THEN <<directory>>
    ELSE (IF baseDirectory # "" THEN <<PathJoin(baseDirectory, directory)>> ELSE <<>>)
         \o <<PathJoin(Cwd, directory)>>
FirstExisting(candidates) ==
    LET existing == {i \in 1..Len(candidates) : ExistsSync(candidates[i])}
    IN IF existing = {} THEN Null
       ELSE candidates[CHOOSE i \in existing : \A j \in existing : i <= j]

\* C19: a setWorkingDirectory call whose stat succeeds answers by the first
\* existing candidate of its input, in the order absolute, base-relative (with
\* a base directory), cwd-relative: 'not found' when none exists, success with
\* that path when it is a directory, 'not a directory' when it is not, whatever
\* the later candidates are; and an absolute input has no other candidate.
C19_FirstExistingCandidateWins ==
    [][\A channelId \in Channels, directory \in ResolveInputs,
          threadTs \in Threads, userId \in Users :
          SetWorkingDirectory(channelId, directory, threadTs, userId, TRUE) =>
             LET winner == FirstExisting(Candidates(directory))
             IN /\ IsAbsolute(directory) =>
                      (winner = IF ExistsSync(directory) THEN directory ELSE Null)
                /\ result' =
                      IF winner = Null
                      THEN [success |-> FALSE, error |-> "Directory not found"]
                      ELSE IF IsDirectory(winner)
                      THEN [success |-> TRUE, resolvedPath |-> winner]
                      ELSE [success |-> FALSE, error |-> "Path is not a directory"]]_vars

\* C19 witness: with a base directory, "proj" was set and resolved under the
\* base although the cwd has a directory of that name too
C19_Witness ==
    /\ baseDirectory = "/base"
    /\ result = [success |-> TRUE, resolvedPath |-> "/base/proj"]
    /\ \E key \in DOMAIN configs : configs[key].directory = "/base/proj"
    /\ ExistsSync(PathJoin(Cwd, "proj"))

\* a setWorkingDirectory call with this input fails: nothing found, the stat
\* throws, or the path found is not a directory
SetFails(directory, statOk) ==
    \/ ResolveDirectory(directory) = Null
    \/ ~statOk
    \/ ~IsDirectory(ResolveDirectory(directory))

\* what a call leaves alone when it changes nothing of the store
StoreUntouched ==
    /\ configs' = configs
    /\ saveTimer' = saveTimer
    /\ saves' = saves
    /\ disk' = disk
    /\ hostAlive'

\* C20: a setWorkingDirectory call that fails returns a failure result, and a
\* removeWorkingDirectory call for a key without entry returns false; neither
\* raises, and both leave the map, the timer (the one pending is neither
\* cancelled nor armed again), the saves and the file as they were.
C20_FailedCallChangesNothing ==
    [][\A channelId \in Channels, threadTs \in Threads, userId \in Users :
          /\ \A directory \in DirectoryInputs, statOk \in BOOLEAN :
                (/\ SetFails(directory, statOk)
                 /\ SetWorkingDirectory(channelId, directory, threadTs, userId, statOk))
                => (result'.success = FALSE /\ StoreUntouched)
          /\ (/\ GetConfigKey(channelId, threadTs, userId) \notin DOMAIN configs
              /\ RemoveWorkingDirectory(channelId, threadTs, userId))
             => (result' = Removed(FALSE) /\ StoreUntouched)]_vars

\* C20 witness: a call has failed with 'not a directory' while the timer armed
\* by an earlier, successful call is still pending, as it was armed
C20_Witness ==
    /\ result = [success |-> FALSE, error |-> "Path is not a directory"]
    /\ configs # EmptyMap
    /\ saveTimer.field \in saveTimer.pending
    /\ saveTimer.field.armedAt = lastMutation.at
    /\ now > lastMutation.at

\* C21: at most one save timer is pending; the pending one is the one held in
\* saveTimer, it was armed by the last map-changing mutation and is due one
\* debounce window after it (so no timer of an earlier mutation is left to
\* fire); and a timer that fires is that one.
C21_OnePendingTimer ==
    /\ Cardinality(saveTimer.pending) <= 1
    /\ \A timer \in saveTimer.pending :
          /\ timer = saveTimer.field
          /\ lastMutation.count > 0
          /\ timer.armedAt = lastMutation.at
          /\ timer.due = lastMutation.at + SAVE_DEBOUNCE_MS
    /\ \A i \in 1..Len(saveLog) : saveLog[i].at <= lastMutation.at + SAVE_DEBOUNCE_MS

\* C21 witness: a second mutation half a window after the first has armed the
\* timer again; the instant the first timer was due is reached and nothing
\* has been saved
C21_Witness ==
    /\ lastMutation = [count |-> 2, at |-> TickMs, bursts |-> 1]
    /\ now = SAVE_DEBOUNCE_MS
    /\ saveTimer.pending = {[armedAt |-> TickMs, due |-> TickMs + SAVE_DEBOUNCE_MS]}
    /\ saveLog = <<>>

\* the entries of the file a store was constructed on that it left out: their
\* directory did not exist
Dropped(store) ==
    {i \in 1..Len(store.from.directories) :
        store.from.directories[i].key \notin DOMAIN store.configs}

\* C22: constructing the store changes neither the persisted file nor the
\* timer and starts no save, and leaves out of the map the entries whose
\* directory does not exist; until the first map-changing mutation the file is
\* the one the store loaded, with those entries; and every document saved
\* afterwards is the full map of that moment, without them.
C22_LoadNeverWrites ==
    [][/\ Construct =>
             /\ disk' = disk
             /\ saveTimer' = saveTimer
             /\ saves' = saves
             /\ \A i \in 1..Len(disk.directories) :
                   ~ExistsSync(disk.directories[i].entry.directory)
                      => disk.directories[i].key \notin DOMAIN configs'
       /\ (fresh.constructed /\ lastMutation.count = 0) =>
             /\ disk = fresh.from
             /\ saveTimer.pending = {}
             /\ saveLog = <<>>
       /\ (fresh.constructed /\ saveLog' # saveLog) =>
             LET saved == saveLog'[Len(saveLog')].data
             IN /\ saved = Serialize(configs)
                /\ \A i \in Dropped(fresh) :
                      LET was == fresh.from.directories[i]
                      IN was.key \in DOMAIN saved.directories
                            => saved.directories[was.key].directory # was.entry.directory
      ]_vars

\* C22 witness: the store was constructed on a file with an entry it dropped;
\* after a mutation its save has replaced the file, which no longer has the
\* entry
C22_Witness ==
    /\ fresh.constructed
    /\ Dropped(fresh) # {}
    /\ lastMutation.count > 0
    /\ disk = JsonStringify(Serialize(configs))
    /\ disk # fresh.from
    /\ \A i \in Dropped(fresh) :
          \A j \in 1..Len(disk.directories) :
             disk.directories[j].key # fresh.from.directories[i].key

C24_FileCatchesUp ==
    (/\ lastMutation.count > 0
     /\ saveTimer.pending = {}
     /\ saves = {}) => disk = JsonStringify(Serialize(configs))

====
